---- MODULE Spec2Model ----
(***************************************************************************)
(* A model of the blog's ActivityPub read endpoints (src/main.rs): the     *)
(* in-memory Blog, the translation of Author and Post into Person and      *)
(* Create(Note), and the three GET handlers.                               *)
(*                                                                         *)
(* Strings are sequences of one-character strings, so that format!() is    *)
(* concatenation and URL ids can be compared character by character.       *)
(***************************************************************************)
EXTENDS Integers, Sequences, FiniteSets, TLC

VARIABLES blog, domain, last, seen

vars == <<blog, domain, last, seen>>

(* ---------------------------- bounds ---------------------------------- *)

MaxAuthors == 2
MaxPosts == 2
MaxStamp == 1

(* ------------------------- string literals ---------------------------- *)

HostnameDebug == <<"h", "t", "t", "p", ":", "/", "/", "l", "o", "c", "a", "l", "h", "o", "s", "t", ":", "3", "0", "0", "0">>
DomainDebug == <<"l", "o", "c", "a", "l", "h", "o", "s", "t", ":", "3", "0", "0", "0">>
HostnameRelease == <<"h", "t", "t", "p", "s", ":", "/", "/", "a", "s", "t", "a", "v", "i", "e", ".", "d", "e", "v">>
HostnameNoScheme == <<"a", "s", "t", "a", "v", "i", "e", ".", "d", "e", "v">>
DomainRelease == <<"a", "s", "t", "a", "v", "i", "e", ".", "d", "e", "v">>
S_users == <<"/", "u", "s", "e", "r", "s", "/">>
S_inbox == <<"/", "i", "n", "b", "o", "x">>
S_outbox == <<"/", "o", "u", "t", "b", "o", "x">>
S_following == <<"/", "f", "o", "l", "l", "o", "w", "i", "n", "g">>
S_followers == <<"/", "f", "o", "l", "l", "o", "w", "e", "r", "s">>
S_statuses == <<"/", "s", "t", "a", "t", "u", "s", "e", "s", "/">>
S_activity == <<"/", "a", "c", "t", "i", "v", "i", "t", "y">>
S_blog == <<"/", "b", "l", "o", "g", "/">>
S_separator == <<"\n", "-", "-", "-", "\n", "\n">>
S_acct == <<"a", "c", "c", "t", ":">>
S_epochDay == <<"1", "9", "7", "0", "-", "0", "1", "-", "0", "1", "T">>

\* activitypub_federation::kinds::public()
public == <<"h", "t", "t", "p", "s", ":", "/", "/", "w", "w", "w", ".", "w", "3", ".", "o", "r", "g", "/", "n", "s", "/", "a", "c", "t", "i", "v", "i", "t", "y", "s", "t", "r", "e", "a", "m", "s", "#", "P", "u", "b", "l", "i", "c">>

Upper == <<"A", "B", "C", "D", "E", "F", "G", "H", "I", "J", "K", "L", "M", "N", "O", "P", "Q", "R", "S", "T", "U", "V", "W", "X", "Y", "Z">>
Lower == <<"a", "b", "c", "d", "e", "f", "g", "h", "i", "j", "k", "l", "m", "n", "o", "p", "q", "r", "s", "t", "u", "v", "w", "x", "y", "z">>
Digits == <<"0", "1", "2", "3", "4", "5", "6", "7", "8", "9">>

Range(s) == {s[i] : i \in 1..Len(s)}

UpperSet == Range(Upper)
LowerSet == Range(Lower)
DigitSet == Range(Digits)

IndexOf(c, s) == CHOOSE i \in 1..Len(s) : s[i] = c

(* --------------------------- std helpers ------------------------------ *)

\* Result<T, E>
Ok(v) == [ok |-> TRUE, value |-> v]
Err(e) == [ok |-> FALSE, err |-> e]

\* i64 Display, as used by format!("{}", timestamp) ; n >= 0 in this model
RECURSIVE to_string(_)
to_string(n) ==
    IF n < 10 THEN <<Digits[n + 1]>>
    ELSE to_string(n \div 10) \o <<Digits[(n % 10) + 1]>>

\* {:02} zero padded field of a strftime item
Pad2(n) == <<Digits[(n \div 10) + 1], Digits[(n % 10) + 1]>>

\* char::to_lowercase on the letters of the model's alphabet
to_lowercase_char(c) == IF c \in UpperSet THEN Lower[IndexOf(c, Upper)] ELSE c

\* str::to_lowercase
to_lowercase(s) == [i \in 1..Len(s) |-> to_lowercase_char(s[i])]

\* str::replace(from, to) for a one-character pattern
replace(s, from, to) == [i \in 1..Len(s) |-> IF s[i] = from THEN to ELSE s[i]]

\* variant: DateTime<Utc>::timestamp_millis() used in place of timestamp()
timestamp_millis(published) == published.secs * 1000 + published.nanos \div 1000000

\* DateTime<Utc>::timestamp(): whole seconds since the epoch, the
\* sub-second part is dropped
timestamp(published) == published.secs

\* DateTime<Utc>::format("%Y-%m-%dT%H:%M:%SZ").to_string(), for instants
\* of the first day of the epoch (0 <= secs < 86400)
format_published(published) ==
    LET s == published.secs
    IN  S_epochDay \o Pad2(s \div 3600) \o <<":">> \o Pad2((s % 3600) \div 60)
          \o <<":">> \o Pad2(s % 60) \o <<"Z">>

\* A URL scheme: one letter, then letters, digits, "+", "-", "."
IsAlpha(c) == c \in UpperSet \/ c \in LowerSet
IsSchemeChar(c) == IsAlpha(c) \/ c \in DigitSet \/ c \in {"+", "-", "."}

\* Length of the scheme including its ":", 0 when the input has no scheme
RECURSIVE SchemeScan(_, _)
SchemeScan(s, i) ==
    IF i > Len(s) THEN 0
    ELSE IF s[i] = ":" THEN (IF i > 1 THEN i ELSE 0)
    ELSE IF (i = 1 /\ IsAlpha(s[i])) \/ (i > 1 /\ IsSchemeChar(s[i]))
         THEN SchemeScan(s, i + 1)
    ELSE 0

\* Percent-encoding of the characters after the scheme (a space becomes %20)
RECURSIVE PercentEncode(_)
PercentEncode(s) ==
    IF \A i \in 1..Len(s) : s[i] # " " THEN s
    ELSE LET i == CHOOSE k \in 1..Len(s) : s[k] = " " /\ \A j \in 1..(k - 1) : s[j] # " "
         IN  SubSeq(s, 1, i - 1) \o <<"%", "2", "0">> \o PercentEncode(SubSeq(s, i + 1, Len(s)))

\* Url::parse: an input without a scheme is a relative URL and there is no
\* base, so parsing fails; otherwise the serialised URL is returned.
Url_parse(s) ==
    LET n == SchemeScan(s, 1)
    IN  IF n = 0 THEN Err("RelativeUrlWithoutBase")
        ELSE Ok(SubSeq(s, 1, n) \o PercentEncode(SubSeq(s, n + 1, Len(s))))

(* ----------------------------- errors --------------------------------- *)

\* enum Error { Internal(anyhow::Error), NotFound }
Internal(cause) == [kind |-> "Internal", cause |-> cause]
NotFound == [kind |-> "NotFound"]

\* impl<T: Into<anyhow::Error>> From<T> for Error: what the ? operator
\* applies to the error of any fallible library call
From(r) == IF r.ok THEN r ELSE Err(Internal(r.err))

\* impl IntoResponse for Error, and 200 for an Ok result
into_response(result) ==
    IF result.ok THEN 200
    ELSE IF result.err.kind = "Internal" THEN 500
    ELSE 404

(* --------------------------- translation ------------------------------ *)

\* variant: the post is addressed to the following collection
Post_to_following(self, data) ==
    From(Url_parse(data.hostname \o S_users \o self.author \o S_following))

\* Post::into_json, the `to` address
Post_to(self, data) ==
    From(Url_parse(data.hostname \o S_users \o self.author \o S_followers))

\* variant: Create.id built with the Note.id format string
Post_create_id_no_suffix(self, data) ==
    From(Url_parse(data.hostname \o S_users \o self.author \o S_statuses
                     \o to_string(timestamp(self.published))))

\* Post::into_json, Create.id
Post_create_id(self, data) ==
    From(Url_parse(data.hostname \o S_users \o self.author \o S_statuses
                     \o to_string(timestamp(self.published)) \o S_activity))

\* Post::into_json, Note.id
Post_note_id(self, data) ==
    From(Url_parse(data.hostname \o S_users \o self.author \o S_statuses
                     \o to_string(timestamp(self.published))))

\* Post::into_json, Note.url
Post_note_url(self, data) ==
    From(Url_parse(data.hostname \o S_blog
                     \o replace(to_lowercase(self.title), " ", "-")))

\* Post::into_json
Post_into_json(self, data) ==
    LET published == format_published(self.published)
        toUrl == Post_to(self, data)
    IN  IF ~toUrl.ok THEN toUrl ELSE
        LET to == <<toUrl.value>>
            cc == <<public>>
            id == Post_create_id(self, data)
        IN  IF ~id.ok THEN id ELSE
            LET noteId == Post_note_id(self, data)
            IN  IF ~noteId.ok THEN noteId ELSE
                LET url == Post_note_url(self, data)
                IN  IF ~url.ok THEN url ELSE
                    Ok([kind |-> "Create",
                        id |-> id.value,
                        published |-> published,
                        to |-> to,
                        cc |-> cc,
                        object |-> [kind |-> "Note",
                                    id |-> noteId.value,
                                    published |-> published,
                                    url |-> url.value,
                                    to |-> to,
                                    cc |-> cc,
                                    content |-> self.title \o S_separator \o self.content]])

\* Author::into_json, the five actor URIs
Author_id(self, data) ==
    From(Url_parse(data.hostname \o S_users \o self.name))

\* variant: the inbox line copied from the outbox line
Author_inbox_as_outbox(self, data) ==
    From(Url_parse(data.hostname \o S_users \o self.name \o S_outbox))

Author_inbox(self, data) ==
    From(Url_parse(data.hostname \o S_users \o self.name \o S_inbox))

Author_outbox(self, data) ==
    From(Url_parse(data.hostname \o S_users \o self.name \o S_outbox))

Author_following(self, data) ==
    From(Url_parse(data.hostname \o S_users \o self.name \o S_following))

Author_followers(self, data) ==
    From(Url_parse(data.hostname \o S_users \o self.name \o S_followers))

\* Author::into_json
Author_into_json(self, data) ==
    LET id == Author_id(self, data)
    IN  IF ~id.ok THEN id ELSE
        LET inbox == Author_inbox(self, data)
        IN  IF ~inbox.ok THEN inbox ELSE
            LET outbox == Author_outbox(self, data)
            IN  IF ~outbox.ok THEN outbox ELSE
                LET following == Author_following(self, data)
                IN  IF ~following.ok THEN following ELSE
                    LET followers == Author_followers(self, data)
                    IN  IF ~followers.ok THEN followers ELSE
                        Ok([kind |-> "Person",
                            id |-> id.value,
                            inbox |-> inbox.value,
                            outbox |-> outbox.value,
                            following |-> following.value,
                            followers |-> followers.value,
                            preferredUsername |-> self.name,
                            name |-> self.display_name])

(* ------------------------ library collaborators ----------------------- *)

\* WithContext::new_default
WithContext(inner) == [context |-> "default", inner |-> inner]

\* The regex of extract_webfinger_name is built from the domain unescaped,
\* so a "." of the domain matches any character
MatchDomain(s, d) ==
    /\ Len(s) = Len(d)
    /\ \A i \in 1..Len(d) : d[i] = "." \/ s[i] = d[i]

IsNameChar(c) == IsAlpha(c) \/ c \in DigitSet \/ c = "_"

\* extract_webfinger_name: ^acct:(name)@domain$ , else WebfingerResolveFailed
extract_webfinger_name(resource, dom) ==
    LET pre == Len(S_acct)
        at == Len(resource) - Len(dom)
    IN  IF /\ at > pre + 1
           /\ SubSeq(resource, 1, pre) = S_acct
           /\ resource[at] = "@"
           /\ MatchDomain(SubSeq(resource, at + 1, Len(resource)), dom)
           /\ \A i \in (pre + 1)..(at - 1) : IsNameChar(resource[i])
        THEN Ok(SubSeq(resource, pre + 1, at - 1))
        ELSE Err("WebfingerResolveFailed")

\* build_webfinger_response(resource, url)
build_webfinger_response(resource, url) ==
    [subject |-> resource,
     links |-> <<[rel |-> "profile-page", href |-> url],
                 [rel |-> "self", href |-> url]>>]

(* ----------------------------- handlers ------------------------------- *)

\* data.authors.iter().find(|a| a.name == name)
find(authors, name) ==
    LET hits == {i \in 1..Len(authors) : authors[i].name = name}
    IN  IF hits = {} THEN [some |-> FALSE]
        ELSE [some |-> TRUE,
              value |-> authors[CHOOSE i \in hits : \A j \in hits : i <= j]]

\* variant: no filter, every stored post is served
filter_any_author(posts, name) == posts

\* variant: .rev() after the filter, newest stored post first
filter_newest_first(posts, name) ==
    LET f == SelectSeq(posts, LAMBDA p : p.author = name)
    IN  [i \in 1..Len(f) |-> f[Len(f) + 1 - i]]

\* .filter(|p| p.author == name)
filter(posts, name) == SelectSeq(posts, LAMBDA p : p.author = name)

\* variant: .filter_map(Result::ok).collect(), failed translations dropped
RECURSIVE collect_skip_errors(_)
collect_skip_errors(rs) ==
    IF rs = <<>> THEN Ok(<<>>)
    ELSE LET rest == collect_skip_errors(Tail(rs))
         IN  IF Head(rs).ok THEN Ok(<<Head(rs).value>> \o rest.value) ELSE rest

\* .collect::<Result<Vec<_>, _>>(): the first Err, or every value in order
RECURSIVE collect(_)
collect(rs) ==
    IF rs = <<>> THEN Ok(<<>>)
    ELSE IF ~Head(rs).ok THEN Head(rs)
    ELSE LET rest == collect(Tail(rs))
         IN  IF rest.ok THEN Ok(<<Head(rs).value>> \o rest.value) ELSE rest

\* body of http_get_user
get_actor(name, data) ==
    LET user == find(data.authors, name)
    IN  IF ~user.some THEN Err(NotFound) ELSE
        LET person == Author_into_json(user.value, data)
        IN  IF ~person.ok THEN person ELSE Ok(WithContext(person.value))

\* variant: the posts are translated before the author is looked up
get_outbox_translate_first(name, data) ==
    LET matching == SelectSeq(data.posts, LAMBDA p : p.author = name)
        posts == collect([i \in 1..Len(matching) |-> Post_into_json(matching[i], data)])
    IN  IF ~posts.ok THEN posts ELSE
        LET user == find(data.authors, name)
        IN  IF ~user.some THEN Err(NotFound) ELSE
            Ok(WithContext([kind |-> "OrderedCollection",
                            totalItems |-> Len(posts.value),
                            orderedItems |-> posts.value]))

\* body of http_get_outbox
get_outbox(name, data) ==
    LET user == find(data.authors, name)
    IN  IF ~user.some THEN Err(NotFound) ELSE
        LET matching == filter(data.posts, name)
            posts == collect([i \in 1..Len(matching) |-> Post_into_json(matching[i], data)])
        IN  IF ~posts.ok THEN posts ELSE
            Ok(WithContext([kind |-> "OrderedCollection",
                            totalItems |-> Len(posts.value),
                            orderedItems |-> posts.value]))

\* body of webfinger
webfinger_lookup(resource, data, dom) ==
    LET name == From(extract_webfinger_name(resource, dom))
    IN  IF ~name.ok THEN name ELSE
        LET user == find(data.authors, name.value)
        IN  IF ~user.some THEN Err(NotFound) ELSE
            LET person == Author_into_json(user.value, data)
            IN  IF ~person.ok THEN person ELSE
                Ok(build_webfinger_response(resource, person.value.id))

(* --------------------------- state space ------------------------------ *)

Names == {<<"a">>, <<"A">>}
DisplayNames == {<<"D">>}
Texts == {[title |-> <<"A", " ", "b">>, content |-> <<"x">>],
          [title |-> <<"c">>, content |-> <<"y">>]}
\* whole seconds 0, 59, 118, ... and one instant half a second after the first
Instants == {[secs |-> 59 * k, nanos |-> 0] : k \in 0..MaxStamp}
              \cup {[secs |-> 0, nanos |-> 500000000]}

Authors == [name : Names, display_name : DisplayNames, followers : {<<>>}]
Posts == {[author |-> a, published |-> t, title |-> x.title, content |-> x.content] :
            a \in Names, t \in Instants, x \in Texts}

SeqsUpTo(S, n) == UNION {[1..k -> S] : k \in 0..n}

\* Author.name is a unique identifier
AuthorLists == {as \in SeqsUpTo(Authors, MaxAuthors) :
                  \A i, j \in 1..Len(as) : as[i].name = as[j].name => i = j}

\* main(): hostname and domain are chosen together
Configs == {[hostname |-> HostnameDebug, domain |-> DomainDebug],
            [hostname |-> HostnameRelease, domain |-> DomainRelease],
            [hostname |-> HostnameNoScheme, domain |-> DomainRelease]}

Resources == {S_acct \o n \o <<"@">> \o DomainRelease : n \in Names} \cup Names

NoRequest == [op |-> "none"]

\* The client's memory of one earlier answer: `between` records that a
\* different request was served after it
Watch(op, arg) ==
    IF seen = NoRequest THEN seen
    ELSE [seen EXCEPT !.between = @ \/ op # seen.exchange.op \/ arg # seen.exchange.arg]

Exchange(op, arg, result) ==
    [op |-> op, arg |-> arg, result |-> result, status |-> into_response(result)]

Startup(postPool) ==
    /\ \E c \in Configs, as \in AuthorLists, ps \in SeqsUpTo(postPool, MaxPosts) :
          /\ blog = [hostname |-> c.hostname, authors |-> as, posts |-> ps]
          /\ domain = c.domain
    /\ last = NoRequest
    /\ seen = NoRequest

Init == Startup(Posts)

http_get_user ==
    /\ \E name \in Names :
          /\ last' = Exchange("get_actor", name, get_actor(name, blog))
          /\ seen' = Watch("get_actor", name)
    /\ UNCHANGED <<blog, domain>>

\* variant: the handler takes the served posts out of the blog
http_get_outbox_drain ==
    \E name \in Names :
        /\ last' = Exchange("get_outbox", name, get_outbox(name, blog))
        /\ seen' = Watch("get_outbox", name)
        /\ blog' = [blog EXCEPT !.posts = IF last'.result.ok
                                           THEN SelectSeq(@, LAMBDA p : p.author # name)
                                           ELSE @]
        /\ UNCHANGED domain

http_get_outbox ==
    /\ \E name \in Names :
          /\ last' = Exchange("get_outbox", name, get_outbox(name, blog))
          /\ seen' = Watch("get_outbox", name)
    /\ UNCHANGED <<blog, domain>>

webfinger ==
    /\ \E resource \in Resources :
          /\ last' = Exchange("webfinger", resource, webfinger_lookup(resource, blog, domain))
          /\ seen' = Watch("webfinger", resource)
    /\ UNCHANGED <<blog, domain>>

Next == http_get_user \/ http_get_outbox \/ webfinger

Spec == Init /\ [][Next]_vars

\* A client remembers one answer, to compare it with a later answer to the
\* same request
Remember ==
    /\ seen = NoRequest
    /\ last # NoRequest
    /\ seen' = [exchange |-> last, between |-> FALSE]
    /\ UNCHANGED <<blog, domain, last>>

NextRetry == Next \/ Remember

\* posts published on whole seconds, all with the same text
PostsRetry == {p \in Posts : p.published.nanos = 0 /\ p.content = <<"x">>}

InitRetry == Startup(PostsRetry)

SpecRetry == InitRetry /\ [][NextRetry]_vars

(* ============================ properties ============================== *)

Known(n) == \E i \in DOMAIN blog.authors : blog.authors[i].name = n

\* positions in blog.posts of the posts whose author field is n
PostIndices(n) == {k \in DOMAIN blog.posts : blog.posts[k].author = n}

\* the i-th post of n in storage order
NthPostOf(n, i) ==
    blog.posts[CHOOSE k \in PostIndices(n) :
                 Cardinality({j \in PostIndices(n) : j <= k}) = i]

OutboxServed == last.op = "get_outbox" /\ last.result.ok
Items == last.result.value.inner.orderedItems

ActorUri(n) == blog.hostname \o S_users \o n
NoteUri(p) == ActorUri(p.author) \o S_statuses \o to_string(p.published.secs)

\* C1: a requested name that matches no Author.name is answered with
\* Error::NotFound by get_actor, get_outbox and the WebFinger lookup, never
\* with Error::Internal, also when orphan posts carry that name and their
\* translation would fail.
C1_UnknownNameIsNotFound ==
    /\ (last.op \in {"get_actor", "get_outbox"} /\ ~Known(last.arg))
          => last.result = Err(NotFound)
    /\ (/\ last.op = "webfinger"
        /\ extract_webfinger_name(last.arg, domain).ok
        /\ ~Known(extract_webfinger_name(last.arg, domain).value))
          => last.result = Err(NotFound)

\* an unknown name with an orphan post whose translation fails
C1_Witness ==
    /\ last.op = "get_outbox"
    /\ ~Known(last.arg)
    /\ \E k \in PostIndices(last.arg) : ~Post_into_json(blog.posts[k], blog).ok
    /\ last.result = Err(NotFound)

\* C2: a WebFinger lookup whose resource is malformed (name extraction
\* fails) is answered with 404 or 400, never 500; 500 is produced only for
\* an internal construction failure (malformed URI).
C2_MalformedResourceIsClientError ==
    last.op = "webfinger" =>
        /\ ~extract_webfinger_name(last.arg, domain).ok => last.status \in {400, 404}
        /\ last.status = 500 => last.result.err.cause = "RelativeUrlWithoutBase"

\* C3: a successful get_outbox(n) has totalItems equal to the length of
\* orderedItems and to the number of stored posts whose author is n.
C3_TotalItemsIsCount ==
    OutboxServed =>
        /\ last.result.value.inner.totalItems = Len(Items)
        /\ last.result.value.inner.totalItems = Cardinality(PostIndices(last.arg))

\* an outbox served while the blog also stores a post of another author
C3_Witness ==
    /\ OutboxServed
    /\ last.result.value.inner.totalItems = 1
    /\ Len(blog.posts) = 2

\* C4: get_outbox of a known author is all or nothing: if the translation of
\* one of the author's posts fails the result is Error::Internal and no
\* collection, otherwise it is a collection holding every translation.
C4_AllOrNothing ==
    (last.op = "get_outbox" /\ Known(last.arg)) =>
        IF \E k \in PostIndices(last.arg) : ~Post_into_json(blog.posts[k], blog).ok
        THEN ~last.result.ok /\ last.result.err.kind = "Internal"
        ELSE /\ last.result.ok
             /\ Len(Items) = Cardinality(PostIndices(last.arg))
             /\ \A k \in PostIndices(last.arg) :
                   \E i \in DOMAIN Items : Items[i] = Post_into_json(blog.posts[k], blog).value

\* a known author with a post whose translation fails
C4_Witness ==
    /\ last.op = "get_outbox"
    /\ Known(last.arg)
    /\ \E k \in PostIndices(last.arg) : ~Post_into_json(blog.posts[k], blog).ok
    /\ ~last.result.ok

\* C5: no request changes the blog or its configuration, and a request
\* repeated with the same argument gets the answer of its earlier
\* execution, whatever was served in between.
C5_ReadOnlyAndRepeatable ==
    [][/\ blog' = blog
       /\ domain' = domain
       /\ (/\ seen' # NoRequest
           /\ last'.op = seen'.exchange.op
           /\ last'.arg = seen'.exchange.arg)
             => (last'.result = seen'.exchange.result /\ last'.status = seen'.exchange.status)]_vars

\* a remembered request served again after a different one
C5_Witness ==
    /\ seen # NoRequest
    /\ seen.between
    /\ last.op = seen.exchange.op
    /\ last.arg = seen.exchange.arg
    /\ last.result.ok

\* C6: for every translated post, Note.id is
\* {hostname}/users/{author}/statuses/{ts} and Create.id is Note.id followed
\* by "/activity", with ts the post's whole-second timestamp.
C6_CreateIdIsNoteIdActivity ==
    OutboxServed =>
        \A i \in DOMAIN Items :
            /\ Items[i].object.id = NoteUri(NthPostOf(last.arg, i))
            /\ Items[i].id = Items[i].object.id \o S_activity

\* a served post published half a second after a whole second
C6_Witness ==
    /\ OutboxServed
    /\ \E i \in DOMAIN Items : NthPostOf(last.arg, i).published.nanos # 0

\* C7: the Person returned by get_actor(n) has preferredUsername n, name
\* display_name, id {hostname}/users/n and inbox, outbox, following and
\* followers equal to the id followed by /inbox, /outbox, /following and
\* /followers; the five URIs are pairwise distinct.
C7_ActorUris ==
    (last.op = "get_actor" /\ last.result.ok) =>
        LET person == last.result.value.inner
            uris == <<person.id, person.inbox, person.outbox,
                      person.following, person.followers>>
        IN  /\ Known(last.arg)
            /\ person.preferredUsername = last.arg
            /\ \E i \in DOMAIN blog.authors :
                  /\ blog.authors[i].name = last.arg
                  /\ person.name = blog.authors[i].display_name
            /\ person.id = ActorUri(last.arg)
            /\ person.inbox = person.id \o S_inbox
            /\ person.outbox = person.id \o S_outbox
            /\ person.following = person.id \o S_following
            /\ person.followers = person.id \o S_followers
            /\ \A i, j \in 1..5 : uris[i] = uris[j] => i = j

\* the actor document of the author named with an upper-case letter
C7_Witness ==
    /\ last.op = "get_actor"
    /\ last.result.ok
    /\ last.arg = <<"A">>
    /\ Len(blog.authors) = 2

\* C8: every post served in the outbox of n carries, on the Create and on
\* its Note, the same published string, to = [{hostname}/users/n/followers]
\* (the followers URI of get_actor(n)) and cc = [public].
C8_Addressing ==
    OutboxServed =>
        \A i \in DOMAIN Items :
            /\ Items[i].to = <<ActorUri(last.arg) \o S_followers>>
            /\ Items[i].to = <<get_actor(last.arg, blog).value.inner.followers>>
            /\ Items[i].cc = <<public>>
            /\ Items[i].object.to = Items[i].to
            /\ Items[i].object.cc = Items[i].cc
            /\ Items[i].object.published = Items[i].published

\* an outbox with two served posts
C8_Witness ==
    /\ OutboxServed
    /\ Len(Items) = 2

\* C9: the i-th item of get_outbox(n) is the translation of the i-th post of
\* n in storage order; nothing is sorted, reversed or dropped.
C9_StorageOrder ==
    OutboxServed =>
        /\ Len(Items) = Cardinality(PostIndices(last.arg))
        /\ \A i \in DOMAIN Items :
              Items[i] = Post_into_json(NthPostOf(last.arg, i), blog).value

\* two posts stored newest first are served newest first
C9_Witness ==
    /\ OutboxServed
    /\ Len(Items) = 2
    /\ NthPostOf(last.arg, 1).published.secs > NthPostOf(last.arg, 2).published.secs
    /\ Items[1].published # Items[2].published

SameSecond(p, q) == p.published.secs = q.published.secs

\* C10: if the posts of n have pairwise distinct whole-second timestamps,
\* the Create ids are pairwise distinct, the Note ids are pairwise distinct
\* and no Create id equals a Note id; two posts of n in the same second get
\* the same Create id and the same Note id.
C10_IdsUniquePerSecond ==
    OutboxServed =>
        LET n == last.arg
            idx == DOMAIN Items
        IN  /\ (\A i, j \in idx : i # j => ~SameSecond(NthPostOf(n, i), NthPostOf(n, j)))
                  => /\ \A i, j \in idx : i # j => Items[i].id # Items[j].id
                     /\ \A i, j \in idx : i # j => Items[i].object.id # Items[j].object.id
                     /\ \A i, j \in idx : Items[i].id # Items[j].object.id
            /\ \A i, j \in idx :
                  SameSecond(NthPostOf(n, i), NthPostOf(n, j))
                    => /\ Items[i].id = Items[j].id
                       /\ Items[i].object.id = Items[j].object.id

\* two posts of the same second, with different instants, titles and
\* contents, served with the same ids
C10_Witness ==
    /\ OutboxServed
    /\ Len(Items) = 2
    /\ NthPostOf(last.arg, 1).published # NthPostOf(last.arg, 2).published
    /\ NthPostOf(last.arg, 1).title # NthPostOf(last.arg, 2).title
    /\ NthPostOf(last.arg, 1).content # NthPostOf(last.arg, 2).content
    /\ Items[1].id = Items[2].id
    /\ Items[1].object.id = Items[2].object.id

====
